---- MODULE Spec2Model ----
(***************************************************************************)
(* Model of hand_prop_placer.py: the settings record                       *)
(* (HandPropPlacerProperties), the enablement predicate                    *)
(* HANDPROP_OT_place_prop.poll and the operation                           *)
(* HANDPROP_OT_place_prop.execute, acting on a host scene made of an       *)
(* armature object with pose bones, candidate prop objects with a          *)
(* transform and a constraint list, a selection set and an active object.  *)
(*                                                                         *)
(* Matrices are affine 4x4 matrices kept as a 3x3 integer block and a      *)
(* translation; rotations are by whole quarter turns so that every value   *)
(* stays an integer.                                                       *)
(***************************************************************************)
EXTENDS Integers, Sequences, FiniteSets, TLC

VARIABLES
    props,      \* context.scene.hand_prop_placer_props
    objs,       \* per object: scale, matrix_world, constraints
    bones,      \* armature_obj.data.bones (names)
    pose,       \* armature_obj.pose.bones: name -> PoseBone.matrix
    selected,   \* the selected objects
    active,     \* context.view_layer.objects.active
    ret,        \* what the last invocation of execute returned
    reports,    \* self.report(...) levels of the last invocation, in order
    trace,      \* host writes of the last invocation, in order
    raised,     \* where the host raised RuntimeError in the last invocation
    pre         \* the scene as it was when the last invocation started

vars == <<props, objs, bones, pose, selected, active, ret, reports, trace, raised, pre>>

----------------------------------------------------------------------------
(* Bounds of the model *)

MaxConstraints == 3     \* constraints a user puts on an object by hand
MaxOffset == 1          \* offset_x/y/z range over 0..MaxOffset

----------------------------------------------------------------------------
(* Host objects *)

None == "None"

Objects == {"Armature", "Prop", "Lamp"}

type == [o \in Objects |->
            CASE o = "Armature" -> "ARMATURE"
              [] o = "Prop" -> "MESH"
              [] OTHER -> "LIGHT"]

BoneNames == {"hand.R", "hand.L"}

----------------------------------------------------------------------------
(* mathutils: vectors, 3x3 blocks, affine matrices *)

Abs(x) == IF x < 0 THEN -x ELSE x

Vector(x, y, z) == <<x, y, z>>

VecAdd(a, b) == <<a[1] + b[1], a[2] + b[2], a[3] + b[3]>>

Mat3MulVec(m, v) ==
    [i \in 1..3 |-> m[i][1] * v[1] + m[i][2] * v[2] + m[i][3] * v[3]]

Mat3Mul(a, b) ==
    [i \in 1..3 |-> [j \in 1..3 |->
        a[i][1] * b[1][j] + a[i][2] * b[2][j] + a[i][3] * b[3][j]]]

Identity3 == <<<<1, 0, 0>>, <<0, 1, 0>>, <<0, 0, 1>>>>

Matrix(r, t) == [rot |-> r, translation |-> t]

IdentityMatrix == Matrix(Identity3, <<0, 0, 0>>)

\* Matrix.__matmul__ for affine matrices
MatMul(a, b) ==
    Matrix(Mat3Mul(a.rot, b.rot), VecAdd(Mat3MulVec(a.rot, b.translation), a.translation))

\* length of column j of a 3x3 block whose columns are axis aligned
ColumnLength(m, j) == Abs(m[1][j]) + Abs(m[2][j]) + Abs(m[3][j])

\* Matrix.to_scale
to_scale(m) == <<ColumnLength(m.rot, 1), ColumnLength(m.rot, 2), ColumnLength(m.rot, 3)>>

\* Matrix.to_quaternion: the rotation of the matrix, its scale divided out.
\* The quaternion is kept as the 3x3 rotation it stands for.
to_quaternion(m) ==
    [i \in 1..3 |-> [j \in 1..3 |-> m.rot[i][j] \div ColumnLength(m.rot, j)]]

\* Quaternion @ Vector
QuatRotate(q, v) == Mat3MulVec(q, v)

\* math.radians, in quarter turns (90 degrees = 1)
radians(deg) == deg \div 90

Cos(a) == CASE a % 4 = 0 -> 1 [] a % 4 = 2 -> -1 [] OTHER -> 0

Sin(a) == CASE a % 4 = 1 -> 1 [] a % 4 = 3 -> -1 [] OTHER -> 0

RotX(a) == <<<<1, 0, 0>>, <<0, Cos(a), -Sin(a)>>, <<0, Sin(a), Cos(a)>>>>

RotY(a) == <<<<Cos(a), 0, Sin(a)>>, <<0, 1, 0>>, <<-Sin(a), 0, Cos(a)>>>>

RotZ(a) == <<<<Cos(a), -Sin(a), 0>>, <<Sin(a), Cos(a), 0>>, <<0, 0, 1>>>>

\* Euler((x, y, z), 'XYZ').to_quaternion().to_matrix().to_4x4()
EulerXYZ(e) ==
    Matrix(Mat3Mul(RotZ(e[3]), Mat3Mul(RotY(e[2]), RotX(e[1]))), <<0, 0, 0>>)

Scale3(s) == <<<<s, 0, 0>>, <<0, s, 0>>, <<0, 0, s>>>>

----------------------------------------------------------------------------
(* HandPropPlacerProperties *)

\* the defaults of the property group
DefaultProps ==
    [armature_obj |-> None, target_hand_bone_name |-> "", prop_obj |-> None,
     offset_x |-> 0, offset_y |-> 0, offset_z |-> 0,
     rotate_x |-> 0, rotate_y |-> 0, rotate_z |-> 0,
     parent_prop |-> TRUE, apply_prop_scale |-> TRUE]

----------------------------------------------------------------------------
(* HANDPROP_OT_place_prop.poll *)

\* faulty variant: the prop is not compared with the armature
pollNoDistinctCheck(p) ==
    IF p.armature_obj = None THEN "None"
    ELSE IF type[p.armature_obj] # "ARMATURE" THEN "False"
    ELSE IF p.prop_obj = None THEN "None"
    ELSE IF p.target_hand_bone_name \in bones THEN "True" ELSE "False"

\* The value of the Python `and` chain: the first falsy operand, or the last
\* operand. "None" and "False" are falsy.
poll(p) ==
    IF p.armature_obj = None THEN "None"
    ELSE IF type[p.armature_obj] # "ARMATURE" THEN "False"
    ELSE IF p.prop_obj = None THEN "None"
    ELSE IF ~(p.prop_obj # p.armature_obj) THEN "False"
    ELSE IF p.target_hand_bone_name \in bones THEN "True" ELSE "False"

\* bool(value)
Truthy(v) == v = "True"

----------------------------------------------------------------------------
(* HANDPROP_OT_place_prop.execute *)

\* What execute works on: the host state it may write, and what it reports.
Frame ==
    [objs |-> objs, selected |-> selected, active |-> active,
     ret |-> "NONE", reports |-> <<>>, trace |-> <<>>, raised |-> "none"]

\* armature_obj.pose.bones.get(bone_name) is not None
HasPoseBone(name) == name \in DOMAIN pose

\* faulty variant: the scale is reset before the pose bone is looked up
CancelledAfterScaleWrite(f, p) ==
    [f EXCEPT !.objs[p.prop_obj].scale = Vector(1, 1, 1),
              !.reports = Append(@, "ERROR"), !.ret = "CANCELLED"]

\* if not pose_bone: report ERROR, return CANCELLED
Cancelled(f, p) ==
    [f EXCEPT !.reports = Append(@, "ERROR"), !.ret = "CANCELLED"]

\* faulty variant: the scale is reset whatever apply_prop_scale says
ApplyScaleAlways(f, p) ==
    [f EXCEPT !.objs[p.prop_obj].scale = Vector(1, 1, 1),
              !.trace = @ \o <<"scale">>]

\* if props.apply_prop_scale: prop_obj.scale = (1, 1, 1); mesh data update
ApplyScale(f, p) ==
    IF p.apply_prop_scale
    THEN [f EXCEPT !.objs[p.prop_obj].scale = Vector(1, 1, 1),
                   !.trace = @ \o <<"scale">> \o
                       (IF type[p.prop_obj] = "MESH" THEN <<"data.update">> ELSE <<>>)]
    ELSE f

\* faulty variant: the offset is added in world axes
NewMatrixWorldAxes(bone_matrix, p) ==
    LET offset == Vector(p.offset_x, p.offset_y, p.offset_z)
        moved == Matrix(bone_matrix.rot, VecAdd(bone_matrix.translation, offset))
        rotation_matrix ==
            EulerXYZ(<<radians(p.rotate_x), radians(p.rotate_y), radians(p.rotate_z)>>)
    IN  MatMul(moved, rotation_matrix)

\* new_matrix: the bone matrix, moved by the offset turned into the bone's
\* orientation, times the Euler rotation
NewMatrix(bone_matrix, p) ==
    LET offset == Vector(p.offset_x, p.offset_y, p.offset_z)
        moved ==
            Matrix(bone_matrix.rot,
                   VecAdd(bone_matrix.translation,
                          QuatRotate(to_quaternion(bone_matrix), offset)))
        rotation_matrix ==
            EulerXYZ(<<radians(p.rotate_x), radians(p.rotate_y), radians(p.rotate_z)>>)
    IN  MatMul(moved, rotation_matrix)

\* faulty variant: the matrix is assigned to the armature object
AssignMatrixWorldToArmature(f, p, m) ==
    [f EXCEPT !.objs[p.armature_obj].matrix_world = m,
              !.objs[p.armature_obj].scale = to_scale(m),
              !.trace = Append(@, "matrix_world")]

\* prop_obj.matrix_world = new_matrix; the host's setter decomposes the matrix
\* into the object's location, rotation and scale
AssignMatrixWorld(f, p, m) ==
    [f EXCEPT !.objs[p.prop_obj].matrix_world = m,
              !.objs[p.prop_obj].scale = to_scale(m),
              !.trace = Append(@, "matrix_world")]

RemoveAt(s, i) == SubSeq(s, 1, i - 1) \o SubSeq(s, i + 1, Len(s))

\* faulty variant: the walk is by index, as over a Python list, and steps over
\* the element that moved into the place of a removed one
RECURSIVE RemoveLoopByIndex(_, _)
RemoveLoopByIndex(cons, i) ==
    IF i > Len(cons) THEN cons
    ELSE IF cons[i].type = "CHILD_OF" THEN RemoveLoopByIndex(RemoveAt(cons, i), i + 1)
    ELSE RemoveLoopByIndex(cons, i + 1)

RemoveChildOfByIndex(cons) == RemoveLoopByIndex(cons, 1)

\* for c in prop_obj.constraints: if c.type == 'CHILD_OF': remove(c).
\* The host's collection iterator walks the object's linked list of constraints
\* and has already stepped to the successor of c when the loop body runs, so
\* after c is unlinked the walk goes on at the element that followed c, which
\* now sits at c's place i.
RECURSIVE RemoveLoop(_, _)
RemoveLoop(cons, i) ==
    IF i > Len(cons) THEN cons
    ELSE IF cons[i].type = "CHILD_OF" THEN RemoveLoop(RemoveAt(cons, i), i)
    ELSE RemoveLoop(cons, i + 1)

RemoveChildOf(cons) == RemoveLoop(cons, 1)

\* constraints.new(type='CHILD_OF'); target and subtarget as assigned
NewChildOf(target, subtarget) ==
    [type |-> "CHILD_OF", target |-> target, subtarget |-> subtarget,
     inverse_set |-> FALSE]

\* faulty variant: the new constraint is added without removing the old ones
AttachConstraintKeepingOld(f, p) ==
    [f EXCEPT !.objs[p.prop_obj].constraints =
                  Append(@, NewChildOf(p.armature_obj, p.target_hand_bone_name)),
              !.trace = @ \o <<"constraints.new", "view_layer.update">>]

\* the parenting branch up to view_layer.update()
AttachConstraint(f, p) ==
    [f EXCEPT !.objs[p.prop_obj].constraints =
                  Append(RemoveChildOf(@),
                         NewChildOf(p.armature_obj, p.target_hand_bone_name)),
              !.trace = @ \o <<"constraints.new", "view_layer.update">>]

\* the else branch: only remove
DetachConstraint(f, p) ==
    [f EXCEPT !.objs[p.prop_obj].constraints = RemoveChildOf(@)]

\* the host operators that may raise RuntimeError inside the try block
FailPoints == {"none", "select_set", "childof_set_inverse"}

SetInverse(cons) == [cons EXCEPT ![Len(cons)].inverse_set = TRUE]

\* faulty variant: a failure takes the new constraint off again
TryBlockRollingBack(f, p, fail) ==
    LET a == [f EXCEPT !.selected = {}, !.trace = Append(@, "select_all")]
        b == [a EXCEPT !.selected = {p.prop_obj}, !.active = p.prop_obj,
                       !.trace = @ \o <<"select_set", "active">>]
    IN  IF fail = "none"
        THEN [b EXCEPT !.objs[p.prop_obj].constraints = SetInverse(@),
                       !.trace = Append(@, "childof_set_inverse"),
                       !.reports = Append(@, "INFO")]
        ELSE [b EXCEPT !.objs[p.prop_obj].constraints = SubSeq(@, 1, Len(@) - 1),
                       !.raised = fail,
                       !.reports = Append(@, "WARNING")]

\* try: deselect all, select the prop, make it active, set the inverse, report
\* INFO; except RuntimeError: report WARNING
TryBlock(f, p, fail) ==
    LET a == [f EXCEPT !.selected = {}, !.trace = Append(@, "select_all")]
        b == [a EXCEPT !.selected = {p.prop_obj}, !.active = p.prop_obj,
                       !.trace = @ \o <<"select_set", "active">>]
    IN  CASE fail = "select_set" ->
                [a EXCEPT !.raised = fail, !.reports = Append(@, "WARNING")]
          [] fail = "childof_set_inverse" ->
                [b EXCEPT !.raised = fail, !.reports = Append(@, "WARNING")]
          [] OTHER ->
                [b EXCEPT !.objs[p.prop_obj].constraints = SetInverse(@),
                          !.trace = Append(@, "childof_set_inverse"),
                          !.reports = Append(@, "INFO")]

\* faulty variant: the active object is not restored
RestoreSelectionOnly(f, original_selection, original_active) ==
    [f EXCEPT !.selected = original_selection,
              !.trace = @ \o <<"select_all">>
                          \o [i \in 1..Cardinality(original_selection) |-> "select_set"]]

\* deselect all, select every object of original_selection, restore the active
RestoreSelection(f, original_selection, original_active) ==
    [f EXCEPT !.selected = {} \cup original_selection,
              !.active = original_active,
              !.trace = @ \o <<"select_all">>
                          \o [i \in 1..Cardinality(original_selection) |-> "select_set"]
                          \o <<"active">>]

\* execute(self, context), as a function of the settings, the host state it
\* starts from and the place where the host raises RuntimeError (if any)
execute(p, f, fail) ==
    IF ~HasPoseBone(p.target_hand_bone_name) THEN Cancelled(f, p)
    ELSE
        LET original_active == f.active
            original_selection == f.selected
            f1 == ApplyScale(f, p)
            f2 == AssignMatrixWorld(f1, p, NewMatrix(pose[p.target_hand_bone_name], p))
            f3 == IF p.parent_prop
                  THEN TryBlock(AttachConstraint(f2, p), p, fail)
                  ELSE DetachConstraint(f2, p)
            f4 == RestoreSelection(f3, original_selection, original_active)
        IN  [f4 EXCEPT !.ret = "FINISHED"]

----------------------------------------------------------------------------
(* The scene and the steps of the user and of the host *)

Scene ==
    [props |-> props, objs |-> objs, bones |-> bones, pose |-> pose,
     selected |-> selected, active |-> active]

\* a constraint the user added by hand
UserConstraint(t) ==
    [type |-> t, target |-> None, subtarget |-> "", inverse_set |-> FALSE]

ConstraintTypes == {"CHILD_OF", "COPY_LOCATION", "TRACK_TO"}

\* where the armature object stands in the world: moved, turned and scaled
ArmatureWorld == Matrix(Mat3Mul(RotZ(1), Scale3(2)), <<5, 0, 0>>)

\* PoseBone.matrix of the two hand bones, in armature space
HandRMatrix == Matrix(Mat3Mul(RotX(1), Scale3(2)), <<1, 2, 3>>)

HandLMatrix == Matrix(RotZ(3), <<-1, 2, 3>>)

PoseOf(names) ==
    [n \in names |-> IF n = "hand.R" THEN HandRMatrix ELSE HandLMatrix]

InitObjs ==
    [o \in Objects |->
        [scale |-> IF o = "Armature" THEN Vector(2, 2, 2) ELSE Vector(3, 3, 3),
         matrix_world |->
            IF o = "Armature" THEN ArmatureWorld ELSE Matrix(Scale3(3), <<0, 0, 0>>),
         constraints |-> <<>>]]

NoCall ==
    /\ ret' = "NONE"
    /\ reports' = <<>>
    /\ trace' = <<>>
    /\ raised' = "none"
    /\ pre' = Scene'

\* The panel's session: any armature and prop setting, the constraints put on
\* the prop by hand, the pose possibly behind the armature's bones.
Init ==
    /\ \E a \in {None, "Armature", "Lamp"}, o \in {None} \cup Objects :
          props = [DefaultProps EXCEPT !.armature_obj = a, !.prop_obj = o]
    /\ objs = InitObjs
    /\ bones = BoneNames
    /\ pose = PoseOf({"hand.R"})
    /\ selected = {"Armature"}
    /\ active = "Armature"
    /\ ret = "NONE"
    /\ reports = <<>>
    /\ trace = <<>>
    /\ raised = "none"
    /\ pre = Scene

\* the operator button: the host runs execute only where poll holds
Execute ==
    \E fail \in FailPoints :
        /\ Truthy(poll(props))
        /\ fail # "none" => props.parent_prop
        /\ \E f \in {execute(props, Frame, fail)} :
               /\ objs' = f.objs
               /\ selected' = f.selected
               /\ active' = f.active
               /\ ret' = f.ret
               /\ reports' = f.reports
               /\ trace' = f.trace
               /\ raised' = f.raised
        /\ pre' = Scene
        /\ UNCHANGED <<props, bones, pose>>

\* the panel's bone field
SetBoneName ==
    \E n \in {""} \cup BoneNames :
        /\ props' = [props EXCEPT !.target_hand_bone_name = n]
        /\ UNCHANGED <<objs, bones, pose, selected, active>>
        /\ NoCall

\* the panel's two toggles
ToggleParentProp ==
    /\ props' = [props EXCEPT !.parent_prop = ~@]
    /\ UNCHANGED <<objs, bones, pose, selected, active>>
    /\ NoCall

ToggleApplyPropScale ==
    /\ props' = [props EXCEPT !.apply_prop_scale = ~@]
    /\ UNCHANGED <<objs, bones, pose, selected, active>>
    /\ NoCall

\* the user adds a constraint to the prop by hand
AddConstraint ==
    \E t \in ConstraintTypes :
        /\ props.prop_obj # None
        /\ Len(objs[props.prop_obj].constraints) < MaxConstraints
        /\ objs' = [objs EXCEPT ![props.prop_obj].constraints = Append(@, UserConstraint(t))]
        /\ UNCHANGED <<props, bones, pose, selected, active>>
        /\ NoCall

\* the user clicks an object: it becomes (un)selected
SelectToggle ==
    \E o \in Objects :
        /\ selected' = IF o \in selected THEN selected \ {o} ELSE selected \cup {o}
        /\ UNCHANGED <<props, objs, bones, pose, active>>
        /\ NoCall

SetActive ==
    \E o \in {None} \cup Objects :
        /\ active' = o
        /\ UNCHANGED <<props, objs, bones, pose, selected>>
        /\ NoCall

\* the host rebuilds the pose from the armature's bones
RebuildPose ==
    /\ pose' = PoseOf(bones)
    /\ UNCHANGED <<props, objs, bones, selected, active>>
    /\ NoCall

Next ==
    \/ Execute
    \/ SetBoneName
    \/ ToggleParentProp
    \/ ToggleApplyPropScale
    \/ AddConstraint
    \/ RebuildPose

Spec == Init /\ [][Next]_vars

----------------------------------------------------------------------------
(* Selections: the operation under every selection set and active object *)

InitSel ==
    /\ \E o \in {"Prop", "Lamp"} :
          /\ props = [DefaultProps EXCEPT !.armature_obj = "Armature", !.prop_obj = o,
                                          !.target_hand_bone_name = "hand.R"]
          /\ objs = [InitObjs EXCEPT ![o].constraints = <<UserConstraint("CHILD_OF")>>]
    /\ bones = BoneNames
    /\ pose = PoseOf(BoneNames)
    /\ selected = {}
    /\ active = None
    /\ ret = "NONE"
    /\ reports = <<>>
    /\ trace = <<>>
    /\ raised = "none"
    /\ pre = Scene

NextSel ==
    \/ Execute
    \/ ToggleParentProp
    \/ SelectToggle
    \/ SetActive

SpecSel == InitSel /\ [][NextSel]_vars

----------------------------------------------------------------------------
(* Placement: the transform under every bone matrix, offset and rotation *)

\* orientations of a bone
BoneRotations == {Identity3, RotZ(1), RotX(2), Mat3Mul(RotY(1), RotX(3))}

\* PoseBone.matrix values: a rotation, a uniform scale, a translation
BoneMatrices ==
    {Matrix(Mat3Mul(r, Scale3(s)), t) :
        r \in BoneRotations, s \in {1, 2}, t \in {<<1, 2, 3>>}}

\* world transforms of the armature object
ArmatureWorlds == {IdentityMatrix, Matrix(Identity3, <<5, 0, 0>>), ArmatureWorld}

\* rotate_x/y/z values, in degrees
Rotations == {<<0, 0, 0>>, <<90, 0, 0>>, <<0, 0, 270>>, <<90, 180, 0>>}

InitMath ==
    /\ \E x, y, z \in 0..MaxOffset, r \in Rotations, a, b \in BOOLEAN :
          props = [DefaultProps EXCEPT !.armature_obj = "Armature", !.prop_obj = "Prop",
                                       !.target_hand_bone_name = "hand.R",
                                       !.parent_prop = a, !.apply_prop_scale = b,
                                       !.offset_x = x, !.offset_y = y, !.offset_z = z,
                                       !.rotate_x = r[1], !.rotate_y = r[2],
                                       !.rotate_z = r[3]]
    /\ \E w \in ArmatureWorlds :
          objs = [InitObjs EXCEPT !["Armature"].matrix_world = w,
                                  !["Armature"].scale = to_scale(w)]
    /\ bones = BoneNames
    /\ \E m \in BoneMatrices : pose = [n \in BoneNames |-> m]
    /\ selected = {"Armature"}
    /\ active = "Armature"
    /\ ret = "NONE"
    /\ reports = <<>>
    /\ trace = <<>>
    /\ raised = "none"
    /\ pre = Scene

NextMath == Execute

SpecMath == InitMath /\ [][NextMath]_vars

----------------------------------------------------------------------------
(* Properties *)

CountChildOf(cons) == Len(SelectSeq(cons, LAMBDA c : c.type = "CHILD_OF"))

OtherConstraints(cons) == SelectSeq(cons, LAMBDA c : c.type # "CHILD_OF")

\* the prop of the last invocation, and its constraints before and after
PropBefore == pre.objs[pre.props.prop_obj]

PropAfter == objs[pre.props.prop_obj]

\* C1: an invocation with parent_prop set that returns FINISHED leaves exactly
\* one CHILD_OF constraint on the prop, however many it carried before; so
\* after any sequence of such invocations the prop never carries more than one.
C1_AttachLeavesExactlyOne ==
    (ret = "FINISHED" /\ pre.props.parent_prop) =>
        CountChildOf(PropAfter.constraints) = 1

C1_Witness ==
    /\ ret = "FINISHED"
    /\ pre.props.parent_prop
    /\ CountChildOf(PropBefore.constraints) >= 2
    /\ CountChildOf(PropAfter.constraints) = 1

\* C2: an invocation with parent_prop cleared that returns FINISHED leaves no
\* CHILD_OF constraint on the prop and leaves the constraints of every other
\* type in place, in their order.
C2_DetachLeavesNone ==
    (ret = "FINISHED" /\ ~pre.props.parent_prop) =>
        /\ CountChildOf(PropAfter.constraints) = 0
        /\ PropAfter.constraints = OtherConstraints(PropBefore.constraints)

C2_Witness ==
    /\ ret = "FINISHED"
    /\ ~pre.props.parent_prop
    /\ CountChildOf(PropBefore.constraints) >= 2
    /\ Len(PropAfter.constraints) >= 1

\* C3: after an invocation that returns FINISHED the selected objects and the
\* active object are those from before the invocation, with parent_prop set or
\* not, whether or not the host raised in the try block, and also when the prop
\* was neither selected nor active.
C3_SelectionRestored ==
    ret = "FINISHED" => (selected = pre.selected /\ active = pre.active)

C3_Witness ==
    /\ ret = "FINISHED"
    /\ pre.props.parent_prop
    /\ raised = "childof_set_inverse"
    /\ pre.props.prop_obj \notin pre.selected
    /\ pre.selected # {}
    /\ pre.active \notin {None, pre.props.prop_obj}
    /\ selected = pre.selected
    /\ active = pre.active

\* C4: poll is true exactly when the armature is set and is of type ARMATURE,
\* the prop is set and is another object than the armature, and the bone name
\* names a bone of the armature; so it is false for an unset armature, an
\* unset prop, an empty bone name and prop = armature.
C4_PollIffPreconditions ==
    /\ Truthy(poll(props)) <=>
          /\ props.armature_obj # None
          /\ type[props.armature_obj] = "ARMATURE"
          /\ props.prop_obj # None
          /\ props.prop_obj # props.armature_obj
          /\ props.target_hand_bone_name \in bones
    /\ props.armature_obj = None => ~Truthy(poll(props))
    /\ props.prop_obj = None => ~Truthy(poll(props))
    /\ props.target_hand_bone_name = "" => ~Truthy(poll(props))
    /\ props.prop_obj = props.armature_obj => ~Truthy(poll(props))

C4_Witness ==
    /\ props.armature_obj = "Armature"
    /\ props.prop_obj = props.armature_obj
    /\ props.target_hand_bone_name \in bones
    /\ ~Truthy(poll(props))

\* C5: when the bone name is not among the pose bones, the invocation reports
\* an ERROR, returns CANCELLED and changes nothing: the objects (scale, world
\* matrix, constraints), the selection and the active object are as before.
C5_MissingPoseBoneCancels ==
    (ret # "NONE" /\ pre.props.target_hand_bone_name \notin DOMAIN pre.pose) =>
        /\ ret = "CANCELLED"
        /\ reports = <<"ERROR">>
        /\ trace = <<>>
        /\ Scene = pre

C5_Witness ==
    /\ ret = "CANCELLED"
    /\ pre.props.target_hand_bone_name \notin DOMAIN pre.pose
    /\ pre.props.parent_prop
    /\ pre.props.apply_prop_scale
    /\ PropBefore.scale # Vector(1, 1, 1)
    /\ PropBefore.constraints # <<>>

LastConstraint(cons) == cons[Len(cons)]

\* C6: when attachment is requested and the host raises RuntimeError on setting
\* the inverse, the invocation reports a WARNING and no ERROR, returns FINISHED,
\* and ends with the new world matrix on the prop and the new CHILD_OF
\* constraint on it, targeting the armature and the bone.
C6_InverseFailureIsSoft ==
    (ret # "NONE" /\ raised = "childof_set_inverse") =>
        /\ ret = "FINISHED"
        /\ reports = <<"WARNING">>
        /\ PropAfter.matrix_world
              = NewMatrix(pre.pose[pre.props.target_hand_bone_name], pre.props)
        /\ CountChildOf(PropAfter.constraints) >= 1
        /\ LastConstraint(PropAfter.constraints)
              = [type |-> "CHILD_OF", target |-> pre.props.armature_obj,
                 subtarget |-> pre.props.target_hand_bone_name,
                 inverse_set |-> FALSE]

C6_Witness ==
    /\ ret = "FINISHED"
    /\ raised = "childof_set_inverse"
    /\ reports = <<"WARNING">>
    /\ PropBefore.matrix_world # PropAfter.matrix_world

\* the bone's matrix in world space: PoseBone.matrix is in the space of the
\* armature object, which stands in the world at its matrix_world
BoneWorldMatrix(scene) ==
    MatMul(scene.objs[scene.props.armature_obj].matrix_world,
           scene.pose[scene.props.target_hand_bone_name])

ZeroPlacement(p) ==
    /\ p.offset_x = 0 /\ p.offset_y = 0 /\ p.offset_z = 0
    /\ p.rotate_x = 0 /\ p.rotate_y = 0 /\ p.rotate_z = 0
    /\ p.apply_prop_scale

\* C7: with offset (0,0,0), rotation (0,0,0) and scale reset requested, the
\* world matrix assigned to the prop is the bone's world matrix, wherever the
\* armature object stands in the world.
C7_PropAtBoneWorldMatrix ==
    (ret = "FINISHED" /\ ZeroPlacement(pre.props)) =>
        PropAfter.matrix_world = BoneWorldMatrix(pre)

\* the orientation of a bone matrix: the rotation that, scaled, gives its block
BoneOrientation(m) ==
    CHOOSE r \in BoneRotations : \E s \in 1..3 : Mat3Mul(r, Scale3(s)) = m.rot

OffsetOf(p) == Vector(p.offset_x, p.offset_y, p.offset_z)

BoneMatrixOf(scene) == scene.pose[scene.props.target_hand_bone_name]

\* C8: the translation of the world matrix assigned to the prop is the bone
\* matrix's translation plus the offset turned by the bone's orientation R, and
\* not the translation plus the offset in world axes whenever R moves the
\* offset.
C8_OffsetInBoneAxes ==
    ret = "FINISHED" =>
        LET R == BoneOrientation(BoneMatrixOf(pre))
            v == OffsetOf(pre.props)
            t == BoneMatrixOf(pre).translation
        IN  /\ PropAfter.matrix_world.translation = VecAdd(t, Mat3MulVec(R, v))
            /\ Mat3MulVec(R, v) # v =>
                  PropAfter.matrix_world.translation # VecAdd(t, v)

C8_Witness ==
    /\ ret = "FINISHED"
    /\ OffsetOf(pre.props) # <<0, 0, 0>>
    /\ Mat3MulVec(BoneOrientation(BoneMatrixOf(pre)), OffsetOf(pre.props))
          # OffsetOf(pre.props)
    /\ to_scale(BoneMatrixOf(pre)) # <<1, 1, 1>>

\* the place of the first write of the world matrix in the trace
FirstMatrixWrite ==
    CHOOSE i \in 1..Len(trace) :
        trace[i] = "matrix_world" /\ \A j \in 1..(i - 1) : trace[j] # "matrix_world"

\* C9: with apply_prop_scale set, the prop's scale is written before the new
\* world matrix is assigned; with it cleared, the scale is not written before
\* that assignment.
C9_ScaleBeforeMatrix ==
    ret = "FINISHED" =>
        /\ pre.props.apply_prop_scale =>
              \E i \in 1..(FirstMatrixWrite - 1) : trace[i] = "scale"
        /\ ~pre.props.apply_prop_scale =>
              \A i \in 1..(FirstMatrixWrite - 1) : trace[i] # "scale"

C9_Witness ==
    /\ ret = "FINISHED"
    /\ ~pre.props.apply_prop_scale
    /\ "matrix_world" \in {trace[i] : i \in 1..Len(trace)}
    /\ "scale" \notin {trace[i] : i \in 1..Len(trace)}

\* C10: whatever an invocation returns, the settings, the armature's bones and
\* pose matrices and every object but the prop (the armature object among
\* them) are as before; only the prop's transform and constraints may differ.
C10_OnlyThePropChanges ==
    ret # "NONE" =>
        /\ props = pre.props
        /\ bones = pre.bones
        /\ pose = pre.pose
        /\ objs[pre.props.armature_obj] = pre.objs[pre.props.armature_obj]
        /\ \A o \in Objects \ {pre.props.prop_obj} : objs[o] = pre.objs[o]

C10_Witness ==
    /\ ret = "FINISHED"
    /\ PropAfter.matrix_world # PropBefore.matrix_world
    /\ PropAfter.constraints # PropBefore.constraints
    /\ objs[pre.props.armature_obj] = pre.objs[pre.props.armature_obj]

====
